---- MODULE Spec2Model ----
(***************************************************************************)
(* A model of cap-l-cc/turn-on-air-conditioner.                            *)
(*                                                                         *)
(*   src/src/worker.ts         the scheduled handler (one "tick")          *)
(*   src/src/handler/fetch.tsx the administrative HTTP handler (RULE store)*)
(*                                                                         *)
(* Time is counted in whole local hours since 00:00 of day 0.  A KV        *)
(* namespace is a partial function from keys to stored entries.            *)
(***************************************************************************)
EXTENDS Integers, Sequences, FiniteSets, TLC

\* ------------------------------------------------------------------ bounds
\* The model runs over the local days 0..MaxDay.
MaxDay == 2
\* An invocation may still be running this many hour boundaries after it began.
MaxTickSpan == 1
\* The two invocation slots: "t1" is used when no invocation is running, "t2"
\* is an invocation the external cron fires while "t1" is still running.
Ticks == {"t1", "t2"}
\* The temperatures the meter may report.
Temps == {30, 35, 36}
\* How many create requests, and how many writes to RULE from outside the
\* handler, a run of the fetch handler admits.
MaxCreates == 3
MaxOutside == 1
\* The listing's date prefix is computed for every date of this many years,
\* from the year of day 0 on.
MaxYears == 2

\* --------------------------------------------------------------- constants
\* EXPIRATION_TTL as twenty-five hours
EXPIRATION_TTL_mut == 60 * 60 * 25
\* worker.ts:50  expirationTtl: 60 * 60 * 24 (seconds)
EXPIRATION_TTL == 60 * 60 * 24
\* worker.ts:48  the setpoint handed to turnOnAirConditioner
SETTINGS_TEMP == 28
SecondsPerHour == 60 * 60

NoTime == -1
NoTemp == -1000

VARIABLES
    clock,      \* the current local time, in hours since 00:00 of day 0
    holiday,    \* whether the current local day is a public holiday (isHoliday)
    TRIGGERS,   \* worker.ts: the rule array the scheduled handler is built with
    HISTORY,    \* env.TURN_ON_AIR_CON_HISTORY: date key -> [value, expiration]
    tick,       \* per invocation slot: the handler's position and locals
    RULE,       \* env.RULE: key -> the stored text
    rulePuts,   \* RULE.put calls handed to waitUntil, not yet settled (oldest first)
    page,       \* the response the fetch handler has just produced
    budget,     \* how many more requests and outside writes the model admits
    ledger      \* what the create endpoint has accepted: per "HH:MM" the last
                \* form body and the one before it; and whether a put was lost

vars == <<clock, holiday, TRIGGERS, HISTORY, tick, RULE, rulePuts, page, budget, ledger>>
schedVars == <<clock, holiday, TRIGGERS, HISTORY, tick>>
adminVars == <<RULE, rulePuts, page, budget, ledger>>

\* ------------------------------------------------------------ Date helpers
\* Day 0 of the model is Thursday 2023-06-29, so that the modelled days cross
\* the month boundary of lib/date.test.ts.
EpochDate == [year |-> 2023, month |-> 6, day |-> 29]

IsLeapYear(y) == (y % 4 = 0 /\ y % 100 # 0) \/ y % 400 = 0
DaysInMonth(y, m) ==
    IF m = 2 THEN (IF IsLeapYear(y) THEN 29 ELSE 28)
    ELSE IF m \in {4, 6, 9, 11} THEN 30 ELSE 31

\* Date.prototype.getDay of a calendar date: Sunday = 0 .. Saturday = 6
DayOfWeek(y, m, d) ==
    LET t  == <<0, 3, 2, 5, 0, 3, 5, 1, 4, 6, 2, 4>>
        yy == IF m < 3 THEN y - 1 ELSE y
    IN  (yy + (yy \div 4) - (yy \div 100) + (yy \div 400) + t[m] + d) % 7

NextDate(date) ==
    IF date.day < DaysInMonth(date.year, date.month)
    THEN [date EXCEPT !.day = @ + 1]
    ELSE IF date.month < 12
    THEN [date EXCEPT !.month = @ + 1, !.day = 1]
    ELSE [year |-> date.year + 1, month |-> 1, day |-> 1]

RECURSIVE DateOfDay(_)
DateOfDay(i) == IF i = 0 THEN EpochDate ELSE NextDate(DateOfDay(i - 1))

\* The calendar date of a local time (hours since 00:00 of day 0)
DateOf(now) == DateOfDay(now \div 24)
getDay(now) == LET date == DateOf(now) IN DayOfWeek(date.year, date.month, date.day)
getHours(now) == now % 24
\* lib/date: Saturday and Sunday (date.test.ts: 0 and 6 true; -1, 1, 5, 7 false)
isWeekend(day) == day = 0 \/ day = 6
\* lib/date: the banned window (date.test.ts: 0, 1, 5, 6 true; -1, 7 false)
isBannedHour(hour) == 0 <= hour /\ hour <= 6
\* lib/date: the canonical date string YYYY-MM-DD of a local time, as its fields
formatDate(now) == LET date == DateOf(now) IN <<date.year, date.month, date.day>>

\* ------------------------------------------------------------- worker.ts
\* worker.ts:18-22
DefaultTriggers ==
    << [hour |-> 16, temp |-> 38], [hour |-> 17, temp |-> 35], [hour |-> 18, temp |-> 33] >>

\* The rule arrays the handler is built with: the shipped one, one with a
\* zero threshold, and one with several rules for the same hour, one of them
\* repeated.
TriggerConfigs ==
    { DefaultTriggers,
      << [hour |-> 17, temp |-> 0], [hour |-> 18, temp |-> 33] >>,
      << [hour |-> 17, temp |-> 36], [hour |-> 17, temp |-> 35], [hour |-> 17, temp |-> 36] >> }

\* pair.ts filterValidTrigger(triggers, hour): the rules of that hour, in order
filterValidTrigger(triggers, hour) ==
    SelectSeq(triggers, LAMBDA t : t.hour = hour)

RECURSIVE Uniq(_)
\* [...new Set(xs)]: first occurrences, in order
Uniq(xs) ==
    IF xs = << >> THEN << >>
    ELSE LET init == Uniq(SubSeq(xs, 1, Len(xs) - 1))
             last == xs[Len(xs)]
         IN  IF \E i \in 1..Len(init) : init[i] = last THEN init ELSE Append(init, last)

\* triggerTempsOf taking the thresholds of every rule, whatever its hour
triggerTempsOf_mut(triggers, hour) ==
    Uniq([i \in 1..Len(triggers) |-> triggers[i].temp])

\* worker.ts:40
triggerTempsOf(triggers, hour) ==
    LET valid == filterValidTrigger(triggers, hour)
    IN  Uniq([i \in 1..Len(valid) |-> valid[i].temp])

\* Array.prototype.find yields undefined when no element passes the test
Undefined == -999

\* worker.ts:45  triggerTemps.find((triggerTemp) => actualTemp >= triggerTemp):
\* the first threshold at or below the reading, or undefined
findTriggerTemp(triggerTemps, actualTemp) ==
    LET hits == {i \in 1..Len(triggerTemps) : actualTemp >= triggerTemps[i]}
    IN  IF hits = {} THEN Undefined
        ELSE triggerTemps[CHOOSE i \in hits : \A j \in hits : i <= j]

\* !!x for a number or undefined: 0 and undefined are falsy
Truthy(x) == x # Undefined /\ x # 0

\* worker.ts:45
isTempHigherThanTriggers(triggerTemps, actualTemp) ==
    Truthy(findTriggerTemp(triggerTemps, actualTemp))

\* GateRejects with the banned window ending an hour early
GateRejects_mut(now, hol) ==
    \/ isWeekend(getDay(now)) \/ hol
    \/ getHours(now) < 6

\* worker.ts:35-36: the two early returns before the history store is read
GateRejects(now, hol) ==
    \/ isWeekend(getDay(now)) \/ hol
    \/ isBannedHour(getHours(now))

\* Put that keeps the entry a key already has
Put_mut(kv, key, entry) == [k \in DOMAIN kv \cup {key} |-> IF k \in DOMAIN kv THEN kv[k] ELSE entry]

\* KV put: the entry under the key is replaced, the others are kept
Put(kv, key, entry) == [k \in DOMAIN kv \cup {key} |-> IF k = key THEN entry ELSE kv[k]]
\* Live for a store whose entries never expire
Live_mut(kv, key, at) == key \in DOMAIN kv

\* KV: an entry is readable until its expiration
Live(kv, key, at) == key \in DOMAIN kv /\ at < kv[key].expiration
\* isAlreadyTurnedOnToday comparing the value read with 'done', while 'done!'
\* is what is written
isAlreadyTurnedOnToday_mut(date, kv, at) == Live(kv, date, at) /\ kv[date].value = "done"

\* worker.ts:30  kv.get(date).then((v) => !!v)
isAlreadyTurnedOnToday(date, kv, at) == Live(kv, date, at) /\ kv[date].value # ""

\* ------------------------------------------------------- handler/fetch.tsx
\* getWhatWeekOfMonth counting weeks from the first day of the month, whatever
\* its weekday
getWhatWeekOfMonth_mut(date) == 1 + ((date.day - 1) \div 7)

\* lib/date getWhatWeekOfMonth: Sunday-aligned week of the month, from 1
getWhatWeekOfMonth(date) ==
    LET offset == DayOfWeek(date.year, date.month, 1)
    IN  1 + ((date.day - 1 + offset) \div 7)

RECURSIVE Digits(_)
\* Number.prototype.toString of a natural number, as its decimal digits
Digits(n) == IF n < 10 THEN <<n>> ELSE Append(Digits(n \div 10), n % 10)

RECURSIVE parseInt(_)
\* parseInt(s, 10) of a string of decimal digits
parseInt(ds) ==
    IF Len(ds) = 0 THEN 0 ELSE 10 * parseInt(SubSeq(ds, 1, Len(ds) - 1)) + ds[Len(ds)]

\* TimeRegex letting every hour of the day through: /^([01][0-9]|2[0-3]):[0-5][0-9]$/
TimeRegex_mut(time) ==
    /\ Len(time) = 4
    /\ \/ time[1] \in 0..1 /\ time[2] \in 0..9
       \/ time[1] = 2 /\ time[2] \in 0..3
    /\ time[3] \in 0..5
    /\ time[4] \in 0..9

\* fetch.tsx:312  /^(0[6-9]|1[0-9]|2[0-3]):[0-5][0-9]$/ on "HH:MM" given as
\* the four digits around the colon
TimeRegex(time) ==
    /\ Len(time) = 4
    /\ \/ time[1] = 0 /\ time[2] \in 6..9
       \/ time[1] = 1 /\ time[2] \in 0..9
       \/ time[1] = 2 /\ time[2] \in 0..3
    /\ time[3] \in 0..5
    /\ time[4] \in 0..9

\* fetch.tsx:313,315  /^(0|[1-9]?[0-9]|100)$/
TempRegex(ds) ==
    \/ ds = <<0>>
    \/ Len(ds) = 1 /\ ds[1] \in 0..9
    \/ Len(ds) = 2 /\ ds[1] \in 1..9 /\ ds[2] \in 0..9
    \/ ds = <<1, 0, 0>>

\* fetch.tsx:311-316  the form schema
FormSchema(data) ==
    /\ TimeRegex(data.time)
    /\ TempRegex(data.roomTemp)
    /\ data.operationMode \in {"COOL", "HEAT"}
    /\ TempRegex(data.settingsTemp)

\* fetch.tsx:324-334
newTriggerOf(input) ==
    [time |-> [hour |-> parseInt(SubSeq(input.time, 1, 2)),
               minute |-> parseInt(SubSeq(input.time, 3, 4))],
     roomTemp |-> parseInt(input.roomTemp),
     airConditionerSettings |->
        [operationMode |-> input.operationMode,
         settingsTemp |-> parseInt(input.settingsTemp)]]

\* fetch.tsx:335-336  `trigger:${hour}${minute}`
TriggerKey(id) == [kind |-> "trigger", id |-> id]
keyOf(trigger) == TriggerKey(Digits(trigger.time.hour) \o Digits(trigger.time.minute))

\* fetch.tsx:246  `date:${yyyy-MM}:${week}:` followed by the day
DateKey(date) ==
    [kind |-> "date", ym |-> <<date.year, date.month>>,
     week |-> getWhatWeekOfMonth(date), dy |-> date.day]

\* fetch.tsx:246  the prefix the date triggers are listed under
DatePrefix(date) ==
    [kind |-> "date", ym |-> <<date.year, date.month>>, week |-> getWhatWeekOfMonth(date)]

\* A stored text: JSON text (given by the value it decodes to) or other text
Json(v) == [json |-> TRUE, value |-> v]
NotJson == [json |-> FALSE]
Null == [isNull |-> TRUE]

\* fetch.tsx:25-40  triggerSchema.safeParse(v).success
IsTrigger(v) ==
    /\ {"time", "roomTemp", "airConditionerSettings"} \subseteq DOMAIN v
    /\ v.time.hour >= 0 /\ v.time.hour <= 24
    /\ v.time.minute >= 0 /\ v.time.minute <= 59
    /\ v.roomTemp >= 0 /\ v.roomTemp <= 100
    /\ v.airConditionerSettings.operationMode \in {"COOL", "HEAT"}
    /\ v.airConditionerSettings.settingsTemp >= 0
    /\ v.airConditionerSettings.settingsTemp <= 100

\* fetch.tsx:44-47  dateTriggerSchema.safeParse(v).success
IsDateTrigger(v) ==
    /\ {"date", "triggers"} \subseteq DOMAIN v
    /\ \A i \in 1..Len(v.triggers) : IsTrigger(v.triggers[i])

\* The byte order of two strings of digits
LexLess(a, b) ==
    \/ \E i \in 1..Len(a) :
          /\ i <= Len(b)
          /\ a[i] < b[i]
          /\ \A j \in 1..(i - 1) : a[j] = b[j]
    \/ Len(a) < Len(b) /\ \A j \in 1..Len(a) : a[j] = b[j]

RECURSIVE SortedIds(_)
\* A set of digit strings as the sequence in byte order
SortedIds(ids) ==
    IF ids = {} THEN << >>
    ELSE LET first == CHOOSE a \in ids : \A b \in ids \ {a} : LexLess(a, b)
         IN  <<first>> \o SortedIds(ids \ {first})

\* fetch.tsx:238  limit: 20
LIST_LIMIT == 20

\* KV list({ prefix: 'trigger:', limit }): the key names, in byte order
listTriggerKeys(kv, limit) ==
    LET names == SortedIds({k.id : k \in {x \in DOMAIN kv : x.kind = "trigger"}})
    IN  [i \in 1..(IF Len(names) < limit THEN Len(names) ELSE limit) |-> TriggerKey(names[i])]

\* KV list({ prefix: `date:${yyyy-MM}:${week}:` }): the keys of that week
listDateKeys(kv, date) ==
    {k \in DOMAIN kv : k.kind = "date" /\ k.ym = <<date.year, date.month>>
                        /\ k.week = getWhatWeekOfMonth(date)}

\* fetch.tsx:239  get(name, { type: 'json' }) rejects on text that is not JSON
JsonGetThrows(kv, key) == key \in DOMAIN kv /\ ~kv[key].json
JsonGet(kv, key) == IF key \in DOMAIN kv THEN kv[key].value ELSE Null

\* fetch.tsx:239-244  the default triggers shown: the decoded ones, in key order
triggersOf(kv) ==
    LET keys == listTriggerKeys(kv, LIST_LIMIT)
        got  == [i \in 1..Len(keys) |-> JsonGet(kv, keys[i])]
    IN  SelectSeq(got, IsTrigger)

\* fetch.tsx:247  get(name) without a type yields the stored text as a string
TextGet(kv, key) == IF key \in DOMAIN kv THEN [string |-> kv[key]] ELSE Null

\* fetch.tsx:247-252  the date triggers shown: what dateTriggerSchema accepts
\* of the strings read
dateTriggersOf(kv, date) ==
    {v \in {TextGet(kv, k) : k \in listDateKeys(kv, date)} : IsDateTrigger(v)}

NoPage == [status |-> 0]

\* An invocation slot: pc is the await the handler is suspended at, now/hol
\* what it read of the clock and the holiday calendar, marked whether a
\* completion record of its date had been written when it began, seen the
\* outcome of kv.get, triggerTemps and temp the handler's locals, exit the
\* return it took, act/cmd and put/ttl the two promises given to waitUntil
IdleTick ==
    [pc |-> "idle", now |-> NoTime, hol |-> FALSE, marked |-> FALSE, seen |-> "none",
     triggerTemps |-> << >>, temp |-> NoTemp, exit |-> "none",
     act |-> "none", cmd |-> 0, put |-> "none", ttl |-> 0]

Running(t) == tick[t].pc \in {"get", "meter"} \/ tick[t].act = "sent" \/ tick[t].put = "sent"

\* A default trigger as the create endpoint stores it, and an override of
\* day 0 with no triggers
HeatAt17 ==
    [time |-> [hour |-> 17, minute |-> 0], roomTemp |-> 35,
     airConditionerSettings |-> [operationMode |-> "HEAT", settingsTemp |-> 20]]
EmptyOverride ==
    [date |-> [year |-> EpochDate.year, month |-> EpochDate.month, dy |-> EpochDate.day],
     triggers |-> << >>]
\* The contents of RULE the scheduled handler is run against
RuleStores ==
    LET one == Put(<< >>, keyOf(HeatAt17), Json(HeatAt17))
    IN  { << >>, one, Put(one, DateKey(EpochDate), Json(EmptyOverride)) }

Init ==
    /\ clock = 0
    /\ holiday \in BOOLEAN
    /\ TRIGGERS \in TriggerConfigs
    /\ HISTORY = << >>
    /\ tick = [t \in Ticks |-> IdleTick]
    /\ RULE \in RuleStores
    /\ rulePuts = << >>
    /\ page = NoPage
    /\ budget = [creates |-> 0, outside |-> 0]
    /\ ledger = [accepted |-> << >>, lost |-> FALSE]

\* Scheduled without the read of the history store: past the gate the handler
\* goes straight to the rules and the meter
Scheduled_mut(t) ==
    /\ ~(tick[t].pc \in {"get", "meter"} \/ tick[t].act = "sent" \/ tick[t].put = "sent")
    /\ IF t = "t1" THEN TRUE
       ELSE tick["t1"].pc \in {"get", "meter"} \/ tick["t1"].act = "sent" \/ tick["t1"].put = "sent"
    /\ LET now == clock
           began == [IdleTick EXCEPT !.now = now, !.hol = holiday,
                                     !.marked = formatDate(now) \in DOMAIN HISTORY]
           triggerTemps == triggerTempsOf(TRIGGERS, getHours(now))
       IN  tick' = [tick EXCEPT ![t] =
                IF GateRejects(now, holiday)
                THEN [began EXCEPT !.pc = "done", !.exit = "gate"]
                ELSE IF Len(triggerTemps) = 0
                THEN [began EXCEPT !.pc = "done", !.exit = "norules"]
                ELSE [began EXCEPT !.pc = "meter", !.triggerTemps = triggerTemps]]
    /\ UNCHANGED <<clock, holiday, TRIGGERS, HISTORY, adminVars>>

\* worker.ts:33-38: the cron fires; the handler runs to its first await
Scheduled(t) ==
    /\ ~Running(t)
    /\ IF t = "t1" THEN TRUE ELSE Running("t1")
    /\ LET now == clock
           began == [IdleTick EXCEPT !.now = now, !.hol = holiday,
                                     !.marked = formatDate(now) \in DOMAIN HISTORY]
       IN  tick' = [tick EXCEPT ![t] =
                IF GateRejects(now, holiday)
                THEN [began EXCEPT !.pc = "done", !.exit = "gate"]
                ELSE [began EXCEPT !.pc = "get"]]
    /\ UNCHANGED <<clock, holiday, TRIGGERS, HISTORY, adminVars>>

\* HistoryRead going on to the rules and the meter although the record of the
\* date is readable
HistoryRead_mut(t) ==
    /\ tick[t].pc = "get"
    /\ \/ tick' = [tick EXCEPT ![t].pc = "done", ![t].seen = "error", ![t].exit = "kverror"]
       \/ LET now == tick[t].now
              triggerTemps == triggerTempsOf(TRIGGERS, getHours(now))
          IN  tick' = [tick EXCEPT ![t] =
                IF Len(triggerTemps) = 0
                THEN [@ EXCEPT !.pc = "done", !.seen = "absent", !.exit = "norules"]
                ELSE [@ EXCEPT !.pc = "meter", !.seen = "absent",
                               !.triggerTemps = triggerTemps]]
    /\ UNCHANGED <<clock, holiday, TRIGGERS, HISTORY, adminVars>>

\* worker.ts:38-44: kv.get settles; on "not yet" the rules of the hour are
\* selected and the meter is asked
HistoryRead(t) ==
    /\ tick[t].pc = "get"
    /\ \/ tick' = [tick EXCEPT ![t].pc = "done", ![t].seen = "error", ![t].exit = "kverror"]
       \/ LET now == tick[t].now
              triggerTemps == triggerTempsOf(TRIGGERS, getHours(now))
          IN  tick' = [tick EXCEPT ![t] =
                IF isAlreadyTurnedOnToday(formatDate(now), HISTORY, clock)
                THEN [@ EXCEPT !.pc = "done", !.seen = "present", !.exit = "already"]
                ELSE IF Len(triggerTemps) = 0
                THEN [@ EXCEPT !.pc = "done", !.seen = "absent", !.exit = "norules"]
                ELSE [@ EXCEPT !.pc = "meter", !.seen = "absent",
                               !.triggerTemps = triggerTemps]]
    /\ UNCHANGED <<clock, holiday, TRIGGERS, HISTORY, adminVars>>

\* MeterRead carrying on to the actuation and the history put when
\* getMeterStatus rejects
MeterRead_mut(t) ==
    /\ tick[t].pc = "meter"
    /\ \/ tick' = [tick EXCEPT ![t].pc = "done", ![t].exit = "metererror",
                                ![t].act = "sent", ![t].cmd = SETTINGS_TEMP,
                                ![t].put = "sent", ![t].ttl = EXPIRATION_TTL]
       \/ \E actualTemp \in Temps :
            LET triggerTemps == tick[t].triggerTemps
            IN  tick' = [tick EXCEPT ![t] =
                  IF ~isTempHigherThanTriggers(triggerTemps, actualTemp)
                  THEN [@ EXCEPT !.pc = "done", !.temp = actualTemp, !.exit = "cold"]
                  ELSE [@ EXCEPT !.pc = "done", !.temp = actualTemp, !.exit = "fired",
                                 !.act = "sent", !.cmd = SETTINGS_TEMP,
                                 !.put = "sent", !.ttl = EXPIRATION_TTL]]
    /\ UNCHANGED <<clock, holiday, TRIGGERS, HISTORY, adminVars>>

\* worker.ts:44-50: getMeterStatus settles; on a match both the actuation and
\* the history put are handed to ctx.waitUntil and the handler returns
MeterRead(t) ==
    /\ tick[t].pc = "meter"
    /\ \/ tick' = [tick EXCEPT ![t].pc = "done", ![t].exit = "metererror"]
       \/ \E actualTemp \in Temps :
            LET triggerTemps == tick[t].triggerTemps
            IN  tick' = [tick EXCEPT ![t] =
                  IF ~isTempHigherThanTriggers(triggerTemps, actualTemp)
                  THEN [@ EXCEPT !.pc = "done", !.temp = actualTemp, !.exit = "cold"]
                  ELSE [@ EXCEPT !.pc = "done", !.temp = actualTemp, !.exit = "fired",
                                 !.act = "sent", !.cmd = SETTINGS_TEMP,
                                 !.put = "sent", !.ttl = EXPIRATION_TTL]]
    /\ UNCHANGED <<clock, holiday, TRIGGERS, HISTORY, adminVars>>

\* worker.ts:48: the turnOnAirConditioner promise settles
TurnOnSettles(t) ==
    /\ tick[t].act = "sent"
    /\ \E r \in {"ok", "failed"} : tick' = [tick EXCEPT ![t].act = r]
    /\ UNCHANGED <<clock, holiday, TRIGGERS, HISTORY, adminVars>>

\* PutSettles clearing the rule store as the record is written
PutSettles_mut(t) ==
    /\ tick[t].put = "sent"
    /\ \/ /\ tick' = [tick EXCEPT ![t].put = "failed"]
          /\ UNCHANGED <<HISTORY, RULE>>
       \/ /\ tick' = [tick EXCEPT ![t].put = "ok"]
          /\ RULE' = << >>
          /\ LET key == formatDate(tick[t].now)
                 entry == [value |-> "done!",
                           expiration |-> clock + (tick[t].ttl \div SecondsPerHour)]
             IN  HISTORY' = Put(HISTORY, key, entry)
    /\ UNCHANGED <<clock, holiday, TRIGGERS, rulePuts, page, budget, ledger>>

\* worker.ts:50: the history put settles
PutSettles(t) ==
    /\ tick[t].put = "sent"
    /\ \/ /\ tick' = [tick EXCEPT ![t].put = "failed"]
          /\ UNCHANGED HISTORY
       \/ /\ tick' = [tick EXCEPT ![t].put = "ok"]
          /\ LET key == formatDate(tick[t].now)
                 entry == [value |-> "done!",
                           expiration |-> clock + (tick[t].ttl \div SecondsPerHour)]
             IN  HISTORY' = Put(HISTORY, key, entry)
    /\ UNCHANGED <<clock, holiday, TRIGGERS, adminVars>>

\* An hour passes; the invocations that have ended are forgotten.  An entry
\* of the history store past its expiration stays in HISTORY and is no longer
\* readable (Live).
AdvanceClock ==
    /\ clock + 1 < 24 * (MaxDay + 1)
    /\ \A t \in Ticks : Running(t) => (clock + 1) - tick[t].now <= MaxTickSpan
    /\ clock' = clock + 1
    /\ IF (clock + 1) % 24 = 0 THEN holiday' \in BOOLEAN ELSE holiday' = holiday
    /\ tick' = [t \in Ticks |-> IF Running(t) THEN tick[t] ELSE IdleTick]
    /\ UNCHANGED <<TRIGGERS, HISTORY, adminVars>>

\* ------------------------------------------------ handler/fetch.tsx, actions
\* The form bodies the create endpoint is sent: three accepted times of day
\* with two settings each, and bodies the form schema rejects
Form(time, roomTemp, mode) ==
    [time |-> time, roomTemp |-> roomTemp, operationMode |-> mode, settingsTemp |-> <<2, 8>>]
FormInputs ==
    { Form(time, v[1], v[2]) :
        time \in { <<0, 6, 0, 0>>, <<1, 0, 0, 0>>, <<1, 7, 0, 5>> },
        v \in { << <<3, 5>>, "COOL" >>, << <<0>>, "HEAT" >> } }
    \cup { Form(<<0, 5, 3, 0>>, <<3, 5>>, "COOL"), Form(<<2, 4, 0, 0>>, <<3, 5>>, "COOL"),
           Form(<<1, 0, 0, 0>>, <<1, 0, 1>>, "COOL"), Form(<<1, 0, 0, 0>>, <<3, 5>>, "DRY") }

\* The texts another writer may leave under a trigger key: text that is not
\* JSON, a rule in the scheduled handler's {hour, temp} shape, a trigger with
\* an out-of-range room temperature
OutsideTexts ==
    { NotJson, Json([hour |-> 16, temp |-> 38]), Json([HeatAt17 EXCEPT !.roomTemp = 101]) }
OutsideKeys == { TriggerKey(<<6, 0>>), TriggerKey(<<1, 6>>) }

InitAdmin ==
    /\ clock = 0
    /\ holiday = FALSE
    /\ TRIGGERS = DefaultTriggers
    /\ HISTORY = << >>
    /\ tick = [t \in Ticks |-> IdleTick]
    /\ RULE = << >>
    /\ rulePuts = << >>
    /\ page = NoPage
    /\ budget = [creates |-> MaxCreates, outside |-> MaxOutside]
    /\ ledger = [accepted |-> << >>, lost |-> FALSE]

\* fetch.tsx:309-342  POST /api/trigger/create
CreateTrigger(data) ==
    /\ budget.creates > 0
    /\ budget' = [budget EXCEPT !.creates = @ - 1]
    /\ IF ~FormSchema(data)
       THEN /\ page' = [status |-> 400]
            /\ UNCHANGED <<RULE, rulePuts, ledger>>
       ELSE LET newTrigger == newTriggerOf(data)
                before == IF data.time \in DOMAIN ledger.accepted
                          THEN ledger.accepted[data.time].data ELSE data
            IN  /\ rulePuts' = Append(rulePuts, [key |-> keyOf(newTrigger), text |-> Json(newTrigger)])
                /\ page' = [status |-> 302]
                /\ ledger' = [ledger EXCEPT !.accepted =
                                 [h \in DOMAIN @ \cup {data.time} |->
                                    IF h = data.time THEN [data |-> data, prev |-> before]
                                    ELSE @[h]]]
                /\ UNCHANGED RULE
    /\ UNCHANGED schedVars

\* fetch.tsx:336  a put handed to waitUntil settles; KV applies the writes to
\* a key in the order they were issued
RulePutSettles ==
    /\ rulePuts # << >>
    /\ rulePuts' = Tail(rulePuts)
    /\ \/ /\ RULE' = Put(RULE, Head(rulePuts).key, Head(rulePuts).text)
          /\ UNCHANGED ledger
       \/ /\ ledger' = [ledger EXCEPT !.lost = TRUE]
          /\ UNCHANGED RULE
    /\ page' = NoPage
    /\ UNCHANGED <<budget, schedVars>>

\* fetch.tsx:237-269  GET /
GetIndex ==
    /\ LET keys == listTriggerKeys(RULE, LIST_LIMIT)
           now  == DateOf(clock)
       IN  page' = IF \E i \in 1..Len(keys) : JsonGetThrows(RULE, keys[i])
                   THEN [status |-> 500]
                   ELSE [status |-> 200, triggers |-> triggersOf(RULE),
                         dateTriggers |-> dateTriggersOf(RULE, now)]
    /\ UNCHANGED <<RULE, rulePuts, budget, ledger, schedVars>>

\* A record written to RULE by something other than this handler
OutsideWrite(key, text) ==
    /\ budget.outside > 0
    /\ budget' = [budget EXCEPT !.outside = @ - 1]
    /\ RULE' = Put(RULE, key, text)
    /\ page' = NoPage
    /\ UNCHANGED <<rulePuts, ledger, schedVars>>

NextAdmin ==
    \/ \E data \in FormInputs : CreateTrigger(data)
    \/ RulePutSettles
    \/ GetIndex
    \/ \E key \in OutsideKeys, text \in OutsideTexts : OutsideWrite(key, text)

SpecAdmin == InitAdmin /\ [][NextAdmin]_vars

\* ------------------------------------- handler/fetch.tsx, the storage key
\* Every "HH:MM" of two and two digits a create request may carry, the minutes
\* 60..69 and the hours 24..29 among them
AllTimes == {<<a, b, c, d>> : a \in 0..2, b \in 0..9, c \in 0..6, d \in 0..9}
KeyForms == {Form(time, <<3, 5>>, "COOL") : time \in AllTimes}

\* The triggers the store may hold from an earlier create request
PriorForms ==
    {Form(time, <<3, 0>>, "HEAT") :
        time \in { <<0, 6, 1, 0>>, <<0, 6, 0, 1>>, <<1, 1, 0, 0>>, <<1, 6, 0, 1>> }}

\* One create request is about to be sent; the store is empty or holds the
\* trigger of one earlier request
InitKey ==
    /\ clock = 0
    /\ holiday = FALSE
    /\ TRIGGERS = DefaultTriggers
    /\ HISTORY = << >>
    /\ tick = [t \in Ticks |-> IdleTick]
    /\ \E earlier \in {{}} \cup {{f} : f \in PriorForms} :
          /\ RULE = [k \in {keyOf(newTriggerOf(f)) : f \in earlier} |->
                        Json(newTriggerOf(CHOOSE f \in earlier : keyOf(newTriggerOf(f)) = k))]
          /\ ledger = [accepted |-> [h \in {f.time : f \in earlier} |->
                                        LET f == CHOOSE g \in earlier : g.time = h
                                        IN  [data |-> f, prev |-> f]],
                       lost |-> FALSE]
    /\ rulePuts = << >>
    /\ page = NoPage
    /\ budget = [creates |-> 1, outside |-> 0]

NextKey ==
    \/ \E data \in KeyForms : CreateTrigger(data)
    \/ RulePutSettles

SpecKey == InitKey /\ [][NextKey]_vars

\* ---------------------------------------- handler/fetch.tsx, the date prefix
\* The dates GET / may be served on
WeekDates ==
    {date \in [year : EpochDate.year..(EpochDate.year + MaxYears - 1), month : 1..12, day : 1..31] :
        date.day <= DaysInMonth(date.year, date.month)}

\* A request for GET / has arrived on some date and has not been served
InitWeek ==
    /\ clock = 0
    /\ holiday = FALSE
    /\ TRIGGERS = DefaultTriggers
    /\ HISTORY = << >>
    /\ tick = [t \in Ticks |-> IdleTick]
    /\ RULE = << >>
    /\ rulePuts = << >>
    /\ page \in {[status |-> 0, now |-> date] : date \in WeekDates}
    /\ budget = [creates |-> 0, outside |-> 0]
    /\ ledger = [accepted |-> << >>, lost |-> FALSE]

\* fetch.tsx:245-246  now = new Date(); the prefix of that month and week
ListDateTriggerKeys ==
    /\ page.status = 0
    /\ page' = [status |-> 200, now |-> page.now, prefix |-> DatePrefix(page.now)]
    /\ UNCHANGED <<RULE, rulePuts, budget, ledger, schedVars>>

NextWeek == ListDateTriggerKeys

SpecWeek == InitWeek /\ [][NextWeek]_vars


Next ==
    \/ AdvanceClock
    \/ \E t \in Ticks : Scheduled(t)
    \/ \E t \in Ticks : HistoryRead(t)
    \/ \E t \in Ticks : MeterRead(t)
    \/ \E t \in Ticks : TurnOnSettles(t)
    \/ \E t \in Ticks : PutSettles(t)

Spec == Init /\ [][Next]_vars

\* ------------------------------------------------------------------ claims
\* What an invocation has done so far
ReadSensor(t) == tick[t].pc = "meter" \/ tick[t].temp # NoTemp \/ tick[t].exit = "metererror"
Actuated(t) == tick[t].act # "none"
WroteRecord(t) == tick[t].put # "none"

\* C1: an invocation that began after a completion record of its local date
\* had been written ends without reading the sensor and without issuing an
\* actuation command (nor a second record).
C1_OncePerDay ==
    \A t \in Ticks : tick[t].marked => ~ReadSensor(t) /\ ~Actuated(t) /\ ~WroteRecord(t)

\* C1 witness: an hour-18 invocation under the shipped rules, whose hour has a
\* rule, is turned away by the record written earlier that day.
C1_Witness ==
    \E t \in Ticks :
        /\ tick[t].marked /\ tick[t].exit = "already"
        /\ TRIGGERS = DefaultTriggers /\ getHours(tick[t].now) = 18

\* C2: the completion record is written only after the actuation call has
\* returned successfully; where the actuation fails no record is written.
C2_MarkOnlyAfterSuccess ==
    \A t \in Ticks : tick[t].put = "ok" => tick[t].act = "ok"

\* C3: an invocation reads the sensor or actuates only after its read of the
\* completion record has returned "not done".
C3_CheckBeforeSensor ==
    \A t \in Ticks : ReadSensor(t) \/ Actuated(t) => tick[t].seen = "absent"

\* C3 witness: an invocation has actuated, its check having returned "not done".
C3_Witness ==
    \E t \in Ticks : Actuated(t) /\ tick[t].temp # NoTemp /\ tick[t].seen = "absent"

OverridesFor(kv, date) ==
    {kv[k].value : k \in {x \in DOMAIN kv :
        /\ x.kind = "date" /\ kv[x].json /\ IsDateTrigger(kv[x].value)
        /\ kv[x].value.date = [year |-> date.year, month |-> date.month, dy |-> date.day]}}

\* The default triggers stored in RULE
StoredTriggers(kv) ==
    {kv[k].value : k \in {x \in DOMAIN kv : x.kind = "trigger" /\ kv[x].json /\ IsTrigger(kv[x].value)}}

\* C6: when an override is stored for the invocation's date, the thresholds
\* the invocation matches against are those of the override's triggers for its
\* hour, so an override with no triggers keeps it from reading the sensor and
\* from actuating.
C6_OverridePrecedence ==
    \A t \in Ticks : tick[t].pc # "idle" =>
        \A o \in OverridesFor(RULE, DateOf(tick[t].now)) :
            /\ \A i \in 1..Len(tick[t].triggerTemps) :
                  \E j \in 1..Len(o.triggers) :
                     /\ o.triggers[j].time.hour = getHours(tick[t].now)
                     /\ o.triggers[j].roomTemp = tick[t].triggerTemps[i]
            /\ o.triggers = << >> => ~ReadSensor(t) /\ ~Actuated(t)

\* C7: when an invocation actuates, the target temperature it sends is that of
\* the stored rule of its hour with the highest threshold among those at or
\* below the sensor reading.
C7_ActionOfBestRule ==
    \A t \in Ticks : Actuated(t) =>
        LET qualifying == {r \in StoredTriggers(RULE) :
                              /\ r.time.hour = getHours(tick[t].now)
                              /\ r.roomTemp <= tick[t].temp}
            best == {r \in qualifying : \A q \in qualifying : q.roomTemp <= r.roomTemp}
        IN  \A r \in best : tick[t].cmd = r.airConditionerSettings.settingsTemp

\* The decimal value of one to three digits
Dec(ds) ==
    IF Len(ds) = 1 THEN ds[1]
    ELSE IF Len(ds) = 2 THEN 10 * ds[1] + ds[2]
    ELSE 100 * ds[1] + 10 * ds[2] + ds[3]
\* What an accepted form body asks for, and what a stored trigger says
Meant(data) ==
    [hour |-> 10 * data.time[1] + data.time[2], minute |-> 10 * data.time[3] + data.time[4],
     roomTemp |-> Dec(data.roomTemp), mode |-> data.operationMode,
     settingsTemp |-> Dec(data.settingsTemp)]
Shown(v) ==
    [hour |-> v.time.hour, minute |-> v.time.minute, roomTemp |-> v.roomTemp,
     mode |-> v.airConditionerSettings.operationMode,
     settingsTemp |-> v.airConditionerSettings.settingsTemp]
\* Every put of the create endpoint has been applied and nothing else wrote
Settled == rulePuts = << >> /\ ~ledger.lost /\ budget.outside = MaxOutside
TriggerKeys == {k \in DOMAIN RULE : k.kind = "trigger"}

\* C8: once the puts of the accepted create requests have been applied, RULE
\* holds for every accepted "HH:MM" exactly one trigger, with the values of the
\* last request for that time, and nothing else; the listing shows exactly
\* these.
C8_LastWriteWins ==
    Settled =>
        LET asked == {Meant(ledger.accepted[h].data) : h \in DOMAIN ledger.accepted}
        IN  /\ \A k \in TriggerKeys : RULE[k].json /\ IsTrigger(RULE[k].value)
            /\ {Shown(RULE[k].value) : k \in TriggerKeys} = asked
            /\ Cardinality(TriggerKeys) = Cardinality(DOMAIN ledger.accepted)
            /\ page.status = 200 =>
                  /\ Len(page.triggers) = Cardinality(DOMAIN ledger.accepted)
                  /\ {Shown(page.triggers[i]) : i \in 1..Len(page.triggers)} = asked

\* C8 witness: two requests for the same time with different values and one for
\* another time have been applied, and the listing has been served.
C8_Witness ==
    /\ Settled /\ page.status = 200
    /\ Cardinality(DOMAIN ledger.accepted) >= 2
    /\ \E h \in DOMAIN ledger.accepted : ledger.accepted[h].prev # ledger.accepted[h].data

\* C9: the listing does not fail on stored values that do not decode as a
\* trigger; it shows exactly the well-formed triggers among the keys read.
C9_PermissiveSkip ==
    /\ page.status # 500
    /\ page.status = 200 =>
          {page.triggers[i] : i \in 1..Len(page.triggers)} = StoredTriggers(RULE)

C11_RecordLifetime ==
    /\ \A t \in Ticks : tick[t].put = "ok" =>
          LET k == <<DateOf(tick[t].now).year, DateOf(tick[t].now).month, DateOf(tick[t].now).day>>
          IN  /\ k \in DOMAIN HISTORY
              /\ HISTORY[k].expiration - 24 \in tick[t].now..clock
    /\ \A k \in DOMAIN HISTORY :
          /\ k = <<DateOf(clock).year, DateOf(clock).month, DateOf(clock).day>>
                => isAlreadyTurnedOnToday(k, HISTORY, clock)
          /\ clock >= HISTORY[k].expiration => ~isAlreadyTurnedOnToday(k, HISTORY, clock)
    /\ \A t \in Ticks : tick[t].exit = "already" =>
          \E k \in DOMAIN HISTORY :
             /\ k = <<DateOf(tick[t].now).year, DateOf(tick[t].now).month, DateOf(tick[t].now).day>>
             /\ HISTORY[k].expiration > tick[t].now

\* C11 witness: the record of an earlier day is still stored and has expired,
\* and an invocation that began after its expiry has found no record.
C11_Witness ==
    \E k \in DOMAIN HISTORY : \E t \in Ticks :
        /\ clock >= HISTORY[k].expiration
        /\ tick[t].seen = "absent" /\ tick[t].now >= HISTORY[k].expiration

\* C12: the week index in the listing's prefix is 1 + floor((day - 1 + offset)
\* / 7), offset being the weekday (Sunday = 0) of the first of the month; that
\* is one more than the number of Sundays after the first of the month up to
\* the date; it is 1 on the first of every month; and 2023-06-28 and
\* 2023-06-30 are in week 5, 2023-07-01 in week 1.
C12_WeekOfMonth ==
    page.status = 200 =>
        LET date   == page.now
            week   == page.prefix.week
            offset == DayOfWeek(date.year, date.month, 1)
        IN  /\ week = 1 + ((date.day - 1 + offset) \div 7)
            /\ week = 1 + Cardinality({d \in 2..date.day : DayOfWeek(date.year, date.month, d) = 0})
            /\ date.day = 1 => week = 1
            /\ date = [year |-> 2023, month |-> 6, day |-> 28] => week = 5
            /\ date = [year |-> 2023, month |-> 6, day |-> 30] => week = 5
            /\ date = [year |-> 2023, month |-> 7, day |-> 1] => week = 1

\* C12 witness: the prefix has been computed for 2023-06-28, in week 5.
C12_Witness ==
    /\ page.status = 200
    /\ page.now = [year |-> 2023, month |-> 6, day |-> 28]
    /\ page.prefix.week = 5

\* Two invocations of the same local date
SameDate(t, u) ==
    /\ tick[t].pc # "idle" /\ tick[u].pc # "idle"
    /\ DateOf(tick[t].now) = DateOf(tick[u].now)

\* C13: nothing but the completion record stands between two overlapping
\* invocations of a date: when both have issued an actuation command, neither
\* began after a record of the date had been written, each found no record,
\* and each issued its own unconditional write of the record.
C13_OverlapRace ==
    \A t \in Ticks : \A u \in Ticks \ {t} :
        SameDate(t, u) /\ Actuated(t) /\ Actuated(u) =>
            /\ ~tick[t].marked /\ ~tick[u].marked
            /\ tick[t].seen = "absent" /\ tick[u].seen = "absent"
            /\ WroteRecord(t) /\ WroteRecord(u)

\* C13 witness: the second invocation has read the history store while the
\* first one's write was not yet committed, and both have issued an actuation
\* command on that date.
C13_Witness ==
    /\ SameDate("t1", "t2")
    /\ Actuated("t1") /\ Actuated("t2")
    /\ tick["t1"].put = "sent"
    /\ DOMAIN HISTORY = {}

\* C14: an invocation whose read of the completion record fails ends at once,
\* without reading the sensor; one whose sensor read fails ends at once with no
\* reading; neither issues an actuation command or writes a completion record.
C14_AbortOnError ==
    \A t \in Ticks :
        /\ tick[t].seen = "error" =>
              /\ tick[t].pc = "done" /\ tick[t].exit = "kverror"
              /\ tick[t].temp = NoTemp /\ tick[t].triggerTemps = << >>
              /\ ~Actuated(t) /\ ~WroteRecord(t)
        /\ tick[t].exit = "metererror" =>
              /\ tick[t].pc = "done" /\ tick[t].temp = NoTemp
              /\ ~Actuated(t) /\ ~WroteRecord(t)

\* C14 witness: one invocation's sensor read has failed; the date has no
\* record, and another invocation of that date has gone through to actuation.
C14_Witness ==
    \E t \in Ticks : \E u \in Ticks \ {t} :
        /\ tick[t].exit = "metererror"
        /\ SameDate(t, u)
        /\ DOMAIN HISTORY = {}
        /\ tick[u].exit = "fired" /\ tick[u].seen = "absent"

\* C15: no step of the scheduled handler changes the rule store; a step that
\* changes the history store is the commit of the put of an invocation that has
\* issued an actuation command, and it sets the record 'done!' under the key of
\* that invocation's local date and nothing else; an invocation that has ended
\* without an actuation command has issued no put.
C15_TickFrame ==
    [][ /\ RULE' = RULE
        /\ HISTORY' # HISTORY =>
              \E t \in Ticks :
                 LET date == DateOf(tick[t].now)
                     k    == <<date.year, date.month, date.day>>
                 IN  /\ tick[t].put = "sent" /\ tick'[t].put = "ok" /\ Actuated(t)
                     /\ DOMAIN HISTORY' = DOMAIN HISTORY \cup {k}
                     /\ \A j \in DOMAIN HISTORY \ {k} : HISTORY'[j] = HISTORY[j]
                     /\ HISTORY'[k].value = "done!"
        /\ \A t \in Ticks :
              tick'[t].pc = "done" /\ tick'[t].act = "none" => tick'[t].put = "none"
      ]_vars

\* C15 witness: with triggers and an override stored, an invocation's record
\* has been written under its date and is the only entry of the history store.
C15_Witness ==
    \E t \in Ticks :
        /\ Cardinality(DOMAIN RULE) = 2
        /\ tick[t].put = "ok"
        /\ DOMAIN HISTORY = {<<DateOf(tick[t].now).year, DateOf(tick[t].now).month,
                                DateOf(tick[t].now).day>>}

\* C16: an invocation that has passed the gate and found no record, at an hour
\* no rule has, ends without reading the sensor, without an actuation command
\* and without writing a completion record.
C16_NoRuleNoAction ==
    \A t \in Ticks :
        /\ tick[t].seen = "absent"
        /\ ~\E i \in 1..Len(TRIGGERS) : TRIGGERS[i].hour = tick[t].now % 24
        => /\ tick[t].pc = "done" /\ tick[t].exit = "norules"
           /\ tick[t].temp = NoTemp
           /\ ~Actuated(t) /\ ~WroteRecord(t)

\* C16 witness: on a working day that is no holiday, an invocation at 10:00
\* under the shipped rules has found no record and ended for want of a rule.
C16_Witness ==
    \E t \in Ticks :
        /\ tick[t].exit = "norules" /\ tick[t].seen = "absent"
        /\ tick[t].now % 24 = 10 /\ ~tick[t].hol
        /\ TRIGGERS = DefaultTriggers

\* C17: once the puts of the accepted create requests have been applied, the
\* listing shows the stored triggers in ascending order of hour * 100 + minute,
\* none of them twice.
C17_ListingAscending ==
    Settled /\ page.status = 200 =>
        \A i \in 1..Len(page.triggers) : \A j \in 1..Len(page.triggers) :
            i < j => 100 * page.triggers[i].time.hour + page.triggers[i].time.minute
                       < 100 * page.triggers[j].time.hour + page.triggers[j].time.minute

\* C19: every trigger the create endpoint has stored has an hour outside the
\* scheduled handler's banned window 0..6, a minute in 0..59, and a threshold
\* and a target temperature in 0..100.
C19_AcceptedCanFire ==
    Settled =>
        \A k \in TriggerKeys :
            LET v == RULE[k].value
            IN  /\ ~(v.time.hour \in 0..6)
                /\ v.time.hour \in 0..23 /\ v.time.minute \in 0..59
                /\ v.roomTemp \in 0..100
                /\ v.airConditionerSettings.settingsTemp \in 0..100

\* The times the create endpoint accepts, and hour * 100 + minute of a time
AcceptedTimes == {time \in AllTimes : TimeRegex(time)}
Identity(time) == 100 * (10 * time[1] + time[2]) + 10 * time[3] + time[4]
\* The storage key of every accepted time
AcceptedKeys ==
    [time \in AcceptedTimes |-> keyOf(newTriggerOf(Form(time, <<3, 5>>, "COOL")))]

\* C18: the storage key of an accepted create request equals that of another
\* accepted time exactly when hour * 100 + minute is the same; and once the
\* puts have been applied the store holds one trigger for each accepted time,
\* with the values last sent for it.
C18_KeyInjective ==
    /\ \A i \in 1..Len(rulePuts) :
          LET v == rulePuts[i].text.value
          IN  \A time \in AcceptedTimes :
                 (AcceptedKeys[time] = rulePuts[i].key)
                    <=> (Identity(time) = 100 * v.time.hour + v.time.minute)
    /\ rulePuts = << >> /\ ~ledger.lost =>
          /\ Cardinality(TriggerKeys) = Cardinality(DOMAIN ledger.accepted)
          /\ {Shown(RULE[k].value) : k \in TriggerKeys}
                = {Meant(ledger.accepted[h].data) : h \in DOMAIN ledger.accepted}

\* C18 witness: the store held the trigger of 06:10 under "610"; a request for
\* 16:10 has been applied, and both triggers are stored.
C18_Witness ==
    /\ rulePuts = << >> /\ ~ledger.lost
    /\ DOMAIN ledger.accepted = {<<0, 6, 1, 0>>, <<1, 6, 1, 0>>}
    /\ TriggerKeys = {TriggerKey(<<6, 1, 0>>), TriggerKey(<<1, 6, 1, 0>>)}

====
